---- MODULE Spec2Model ----
(***************************************************************************)
(* Model of the BridgeIQ client (src/src/client.ts): the axios transport   *)
(* with its retrying response interceptor, the error mapper, healthCheck,  *)
(* sendAnalysis, checkStatus, downloadReport and the waitForCompletion     *)
(* polling loop.  Time is Date.now() in milliseconds.                      *)
(***************************************************************************)
EXTENDS Integers, Sequences, FiniteSets, TLC

\* ---------------------------------------------------------------- bounds
MaxRetriesBound == 3
MaxTimeoutSteps == 3
MaxPollSteps == 2
MaxLatencySteps == 1
PollStep == 1000
LatencyStep == 300
MaxSegments == 2
ConcMaxRetries == 1
FairMaxRetries == 1

MaxTwinChecks == 2

MaxHelperSteps == 4

HelperMaxRetries == 2

\* ------------------------------------------------------- program constants
BackoffBase == 100
NoStatus == 0

\* ------------------------------------------------------------ JS values
\* Primitive JSON values a response body (or a field of it) can be.
Prims == {"null", "true", "false", "0", "''", "'ok'"}

\* Boolean(v) of JavaScript.
JsBoolean(v) == v \notin {"null", "undefined", "false", "0", "''"}

\* ------------------------------------------------------------ models.ts
AnalysisStatusEnum == {"PENDING", "PROCESSING", "COMPLETED", "MANUAL_COMPLETED", "FAILED"}

\* analysis_status values the server may send: the enumerated ones and one other.
AnalysisStatusValues == AnalysisStatusEnum \cup {"QUEUED"}

NoData == [present |-> FALSE, analysis_status |-> "undefined"]

StatusData(s) == [present |-> TRUE, analysis_status |-> s]

isCompletedWithoutManual(st) == st.analysis_status = "COMPLETED"

isCompleted(st) == st.analysis_status = "COMPLETED" \/ st.analysis_status = "MANUAL_COMPLETED"

isFailed(st) == st.analysis_status = "FAILED"

isProcessing(st) == st.analysis_status = "PENDING" \/ st.analysis_status = "PROCESSING"

PDFStatusEnum == {"PENDING", "PROCESSING", "COMPLETED", "FAILED"}

\* pdf_status values a payload may hold: the enumerated ones, one other, none.
PdfStatusValues == PDFStatusEnum \cup {"QUEUED", "undefined"}

\* report_pdf_link values a payload may hold: none, null, an empty or a real link.
PdfLinkValues == {"undefined", "null", "''", "'/reports/abc.pdf'"}

\* The fields of an AnalysisStatus its getters read.
AnalysisStatuses ==
    [present : {TRUE},
     analysis_status : AnalysisStatusValues \cup {"undefined"},
     pdf_status : PdfStatusValues,
     report_pdf_link : PdfLinkValues]

hasPdfIgnoringStatus(st) ==
    st.report_pdf_link # "undefined" /\ st.report_pdf_link # "null"

hasPdf(st) ==
    /\ st.report_pdf_link # "undefined"
    /\ st.report_pdf_link # "null"
    /\ st.pdf_status = "COMPLETED"

\* ----------------------------------------------------------------- URLs
\* A URL string: origin is its scheme and host ("" when it has none), lead
\* says that what follows starts with "/", path is its segments and slash
\* says that it ends with "/".
Url(origin, lead, path, slash) ==
    [origin |-> origin, lead |-> lead, path |-> path, slash |-> slash]

Paths(segments) == UNION {[1..n -> segments] : n \in 0..MaxSegments}

BaseUrls ==
    {Url("https://api.example.com", TRUE, p, b) : p \in Paths({"api", "v1"}), b \in BOOLEAN}

ReportSegments == {"reports", "abc.pdf", "httpdocs"}

ReportUrls ==
    {Url(o, l, p, FALSE) :
        o \in {"", "https://files.example.com"}, l \in BOOLEAN, p \in Paths(ReportSegments)}
    \ {Url("https://files.example.com", FALSE, p, FALSE) : p \in Paths(ReportSegments)}

\* reportUrl.startsWith('http')
startsWithHttp(u) ==
    u.origin # "" \/ (~u.lead /\ Len(u.path) > 0 /\ u.path[1] = "httpdocs")

\* reportUrl.replace(/^\//, '')
StripLeadingSlash(u) == [u EXCEPT !.lead = FALSE]

\* The directory of the base URL a relative reference is resolved in: its
\* path up to and including the last "/".
Directory(base) ==
    IF base.slash \/ Len(base.path) = 0
    THEN base.path
    ELSE SubSeq(base.path, 1, Len(base.path) - 1)

\* new URL(rel, base).toString()
NewURL(rel, base) ==
    IF rel.origin # "" THEN [rel EXCEPT !.lead = TRUE]
    ELSE IF rel.lead THEN Url(base.origin, TRUE, rel.path, rel.slash)
    ELSE IF Len(rel.path) = 0 THEN [base EXCEPT !.lead = TRUE]
    ELSE Url(base.origin, TRUE, Directory(base) \o rel.path, rel.slash)

\* The url downloadReport hands to axios.
FetchTarget(reportUrl, baseUrl) ==
    IF startsWithHttp(reportUrl)
    THEN reportUrl
    ELSE NewURL(StripLeadingSlash(reportUrl), baseUrl)

\* ------------------------------------------------------------ responses
\* A response body: val is the primitive it is, or "object"; for an object,
\* status and message are its fields ("undefined" when the key is absent).
Body(val, status, message, data) ==
    [val |-> val, status |-> status, message |-> message, data |-> data]

NoBody == Body("undefined", "undefined", "undefined", NoData)

PrimBodies == {Body(v, "undefined", "undefined", NoData) : v \in Prims}

HealthBodies ==
    {Body("object", s, "undefined", NoData) : s \in Prims \cup {"undefined"}}

EnvelopeBodies ==
    {Body("object", "'success'", "undefined", StatusData(s)) : s \in AnalysisStatusValues}
    \cup {Body("object", "'success'", "undefined", NoData)}
    \cup {Body("object", "'error'", m, NoData) : m \in {"undefined", "'bad'"}}

ErrorBodies ==
    {Body("object", "undefined", m, NoData) : m \in {"undefined", "'bad'"}}
    \cup {Body("null", "undefined", "undefined", NoData)}

SuccessStatuses == {200, 201}

FailureStatuses == {400, 401, 402, 403, 404, 408, 429, 500, 503, 504}

\* A response as the server sends it: sent is the message field of its JSON body.
Http(s, b) == [kind |-> "http", status |-> s, body |-> b, sent |-> b.message]

\* An axios failure without a response: the request was made and nothing came
\* back ("none"), or the request could not be set up ("setup").
NoResponse(k) == [kind |-> k, status |-> NoStatus, body |-> NoBody, sent |-> "undefined"]

NotYet == [kind |-> "pending", status |-> NoStatus, body |-> NoBody, sent |-> "undefined"]

\* The bytes of a report, which no JSON field can be read from.
PdfBody == Body("pdf", "undefined", "undefined", NoData)

\* What the endpoint an operation calls may answer with status 200.
BodiesFor(o) ==
    CASE o = "healthCheck" ->
            PrimBodies \cup HealthBodies
            \cup {Body("object", "'success'", "undefined", StatusData("COMPLETED"))}
      [] o = "downloadReport" -> {PdfBody}
      [] OTHER -> EnvelopeBodies \cup {Body("null", "undefined", "undefined", NoData)}

\* What one attempt of a request of operation o may end with.
\* The bodies its other answers may have; the polling loop, which passes
\* checkStatus errors on untouched, is run with one of them.
FailureBodiesFor(o) ==
    IF o = "waitForCompletion" THEN {Body("object", "undefined", "'bad'", NoData)} ELSE ErrorBodies

ResponsesFor(o) ==
    {Http(200, b) : b \in BodiesFor(o)}
    \cup {Http(201, b) : b \in FailureBodiesFor(o)}
    \cup {Http(s, b) : s \in FailureStatuses, b \in FailureBodiesFor(o)}
    \cup {NoResponse("none"), NoResponse("setup")}

\* response.data of a request made with responseType 'arraybuffer': the raw
\* bytes, an object without status or message properties.
BufferBody == Body("buffer", "undefined", "undefined", NoData)

\* The response as axios hands it to the interceptors and the caller: the
\* body is decoded as JSON except for downloadReport, which asks for the bytes.
Received(o, r) ==
    IF o = "downloadReport" /\ r.kind = "http" THEN [r EXCEPT !.body = BufferBody] ELSE r

\* axios default validateStatus: 2xx resolves, everything else rejects.
Resolves(r) == r.kind = "http" /\ r.status >= 200 /\ r.status < 300

Latencies == {i * LatencyStep : i \in 0..MaxLatencySteps}

Timeouts == {i * PollStep : i \in (-1)..MaxTimeoutSteps}

PollIntervals == {i * PollStep : i \in 1..MaxPollSteps}

Operations == {"healthCheck", "sendAnalysis", "checkStatus", "waitForCompletion", "downloadReport"}

\* -------------------------------------------------------------- headers
\* The headers of a request: a value for each name, "absent" for none.
HeaderNames == {"User-Agent", "client-id", "client-secret", "content-type"}

NoHeaders == [h \in HeaderNames |-> "absent"]

\* this.clientId, this.clientSecret and this.userAgent, set by the
\* constructor and readonly.
ClientId == "clientId"

ClientSecret == "clientSecret"

UserAgent == "BridgeIQ-Client"

\* The headers given to axios.create.
DefaultHeaders == [NoHeaders EXCEPT !["User-Agent"] = UserAgent]

getHeaders ==
    [NoHeaders EXCEPT !["User-Agent"] = UserAgent,
                      !["client-id"] = ClientId,
                      !["client-secret"] = ClientSecret]

\* formData.getHeaders()
FormHeaders == [NoHeaders EXCEPT !["content-type"] = "multipart/form-data"]

\* { ...a, ...b } and axios's merge of instance and request headers.
MergeHeaders(a, b) == [h \in HeaderNames |-> IF b[h] # "absent" THEN b[h] ELSE a[h]]

\* The headers option each operation passes to axiosInstance.get / post.
CallHeaders(o) ==
    CASE o = "checkStatus" -> getHeaders
      [] o = "sendAnalysis" -> MergeHeaders(getHeaders, FormHeaders)
      [] OTHER -> NoHeaders

RequestInterceptorIdOnly(h) == [h EXCEPT !["client-id"] = ClientId]

\* The request interceptor.
RequestInterceptor(h) ==
    [h EXCEPT !["client-id"] = ClientId, !["client-secret"] = ClientSecret]

\* What goes out for a request config whose headers option is h: the
\* instance headers, h over them, then the interceptor.
Outgoing(h) == RequestInterceptor(MergeHeaders(DefaultHeaders, h))

\* ------------------------------------------------------------ outcomes
\* What an operation hands to its caller: a returned value or a thrown
\* error.  name is the class of the value or error, statusCode the error's
\* statusCode (NoStatus for undefined), message the pieces the message string
\* is concatenated from, response the error's response payload, data the
\* AnalysisStatus / AnalysisRequest payload and flag a returned boolean.
Pending == [kind |-> "pending", name |-> "", statusCode |-> NoStatus, message |-> <<>>,
            response |-> NoBody, data |-> NoData, flag |-> FALSE]

Throw(name, message, response, statusCode) ==
    [kind |-> "throw", name |-> name, statusCode |-> statusCode, message |-> message,
     response |-> response, data |-> NoData, flag |-> FALSE]

ReturnData(name, data) ==
    [kind |-> "return", name |-> name, statusCode |-> NoStatus, message |-> <<>>,
     response |-> NoBody, data |-> data, flag |-> FALSE]

ReturnBool(b) ==
    [kind |-> "return", name |-> "boolean", statusCode |-> NoStatus, message |-> <<>>,
     response |-> NoBody, data |-> NoData, flag |-> b]

ReturnPath ==
    [kind |-> "return", name |-> "path", statusCode |-> NoStatus, message |-> <<>>,
     response |-> NoBody, data |-> NoData, flag |-> FALSE]

\* { message }: the payload handleErrorResponse builds when there is none.
MessageOnly(m) == Body("object", "undefined", m, NoData)

\* ------------------------------------------------- handleErrorResponse
\* data.message || `HTTP Error ${statusCode}`; reading .message of a null
\* body throws and the catch falls back to the response's statusText.
ErrorMessage(r) ==
    IF r.kind = "http"
    THEN IF r.body.val \in {"null", "undefined"} THEN "statusText"
         ELSE IF JsBoolean(r.body.message) THEN r.body.message
         ELSE "HTTP Error " \o ToString(r.status)
    ELSE IF r.kind = "none" THEN "No response received from server"
    ELSE "error.message"

ErrorData(r) ==
    IF r.kind = "http" /\ r.body.val \notin {"null", "undefined"} THEN r.body
    ELSE MessageOnly(ErrorMessage(r))

handleErrorResponseRateLimited(r) ==
    LET statusCode == r.status
        message == ErrorMessage(r)
        data == ErrorData(r)
    IN  IF statusCode = 429
        THEN Throw("RateLimitError", <<"Rate limit exceeded: ", message>>, data, statusCode)
        ELSE IF statusCode = 401
        THEN Throw("AuthenticationError", <<"Authentication failed: ", message>>, data, statusCode)
        ELSE IF statusCode = 402
        THEN Throw("InsufficientTokensError", <<"Insufficient tokens: ", message>>, data, statusCode)
        ELSE IF statusCode = 404
        THEN Throw("ResourceNotFoundError", <<"Resource not found: ", message>>, data, statusCode)
        ELSE IF statusCode = 400
        THEN Throw("ValidationError", <<"Validation error: ", message>>, data, statusCode)
        ELSE IF statusCode = 408 \/ statusCode = 504
        THEN Throw("TimeoutError", <<"Request timed out: ", message>>, data, statusCode)
        ELSE IF statusCode # NoStatus /\ statusCode >= 500 /\ statusCode < 600
        THEN Throw("BridgeIQError", <<"Server error (", ToString(statusCode), "): ", message>>,
                   data, statusCode)
        ELSE Throw("BridgeIQError",
                   <<"API error (", IF statusCode # NoStatus THEN ToString(statusCode) ELSE "unknown",
                     "): ", message>>,
                   data, statusCode)

handleErrorResponse(r) ==
    LET statusCode == r.status
        message == ErrorMessage(r)
        data == ErrorData(r)
    IN  IF statusCode = 401
        THEN Throw("AuthenticationError", <<"Authentication failed: ", message>>, data, statusCode)
        ELSE IF statusCode = 402
        THEN Throw("InsufficientTokensError", <<"Insufficient tokens: ", message>>, data, statusCode)
        ELSE IF statusCode = 404
        THEN Throw("ResourceNotFoundError", <<"Resource not found: ", message>>, data, statusCode)
        ELSE IF statusCode = 400
        THEN Throw("ValidationError", <<"Validation error: ", message>>, data, statusCode)
        ELSE IF statusCode = 408 \/ statusCode = 504
        THEN Throw("TimeoutError", <<"Request timed out: ", message>>, data, statusCode)
        ELSE IF statusCode # NoStatus /\ statusCode >= 500 /\ statusCode < 600
        THEN Throw("BridgeIQError", <<"Server error (", ToString(statusCode), "): ", message>>,
                   data, statusCode)
        ELSE Throw("BridgeIQError",
                   <<"API error (", IF statusCode # NoStatus THEN ToString(statusCode) ELSE "unknown",
                     "): ", message>>,
                   data, statusCode)

\* ------------------------------------------- sendAnalysis / checkStatus
\* The body of the try block and its catch, applied to the settled transport
\* call: r resolved (2xx) or was rejected by the response interceptor.
EnvelopeOutcomeReclassified(r, cls, context) ==
    IF Resolves(r)
    THEN IF r.status = 200
         THEN IF r.body.val \in {"null", "undefined"}
              THEN Throw("BridgeIQError", <<"Error during ", context, ": ", "TypeError">>,
                         NoBody, NoStatus)
              ELSE IF r.body.status = "'success'"
              THEN IF r.body.data.present
                   THEN ReturnData(cls, r.body.data)
                   ELSE Throw("BridgeIQError", <<"Error during ", context, ": ", "TypeError">>,
                              NoBody, NoStatus)
              ELSE handleErrorResponse(r)
         ELSE Throw("BridgeIQError", <<"Unexpected status code: ", ToString(r.status)>>,
                    r.body, NoStatus)
    ELSE handleErrorResponse(r)

EnvelopeOutcome(r, cls, context) ==
    IF Resolves(r)
    THEN IF r.status = 200
         THEN IF r.body.val \in {"null", "undefined"}
              THEN \* data.status of null: TypeError, wrapped by the last catch branch
                   Throw("BridgeIQError", <<"Error during ", context, ": ", "TypeError">>,
                         NoBody, NoStatus)
              ELSE IF r.body.status = "'success'"
              THEN IF r.body.data.present
                   THEN ReturnData(cls, r.body.data)
                   ELSE \* new AnalysisStatus(undefined): TypeError
                        Throw("BridgeIQError", <<"Error during ", context, ": ", "TypeError">>,
                              NoBody, NoStatus)
              ELSE Throw("BridgeIQError",
                         <<IF JsBoolean(r.body.message) THEN r.body.message ELSE "Unknown error">>,
                         r.body, NoStatus)
         ELSE Throw("BridgeIQError", <<"Unexpected status code: ", ToString(r.status)>>,
                    r.body, NoStatus)
    ELSE handleErrorResponse(r)

sendAnalysis(r) == EnvelopeOutcome(r, "AnalysisRequest", "analysis request")

checkStatus(r) == EnvelopeOutcome(r, "AnalysisStatus", "status check")

\* ------------------------------------------------------- downloadReport
\* The destination as saveFile finds or leaves it: whether the directory of
\* outputPath exists, and what is at outputPath.
Destination(dir, file) == [dir |-> dir, file |-> file]

\* What downloadReport may find: no directory, a directory without the file,
\* a directory with an earlier file.
Destinations ==
    {Destination(FALSE, "absent"), Destination(TRUE, "absent"), Destination(TRUE, "old")}

\* How a saveFile call can go: both steps succeed, mkdirSync throws,
\* writeFileSync throws before or after it emptied the file.
SaveFileOutcomes(d) ==
    {"ok", "writeFails", "writeTruncates"} \cup (IF d.dir THEN {} ELSE {"mkdirFails"})

\* The destination after saveFile went the way w.
saveFile(d, w) ==
    IF w = "mkdirFails" THEN d
    ELSE IF w = "writeFails" THEN [d EXCEPT !.dir = TRUE]
    ELSE IF w = "writeTruncates" THEN Destination(TRUE, "truncated")
    ELSE Destination(TRUE, "report")

DestinationAfterAny2xx(r, d, w) == IF Resolves(r) THEN saveFile(d, w) ELSE d

\* The destination once downloadReport's transport call settled with r.
DestinationAfter(r, d, w) ==
    IF Resolves(r) /\ r.status = 200 THEN saveFile(d, w) ELSE d

\* The outcome of downloadReport; w is how its saveFile call goes.
downloadReport(r, w) ==
    IF Resolves(r)
    THEN IF r.status = 200
         THEN IF w = "ok"
              THEN ReturnPath
              ELSE \* an fs error, wrapped by the last catch branch
                   Throw("BridgeIQError", <<"Error during report download: ", "error.message">>,
                         NoBody, NoStatus)
         ELSE Throw("BridgeIQError", <<"Unexpected status code: ", ToString(r.status)>>,
                    r.body, NoStatus)
    ELSE handleErrorResponse(r)

\* ---------------------------------------------------------- healthCheck
healthCheckThrowsOn5xx(r) ==
    IF Resolves(r)
    THEN IF r.status = 200
         THEN IF r.body.val = "object" /\ r.body.status # "undefined"
              THEN ReturnBool(JsBoolean(r.body.status))
              ELSE ReturnBool(IF r.body.val # "null" THEN JsBoolean(r.body.val) ELSE FALSE)
         ELSE ReturnBool(FALSE)
    ELSE IF r.kind = "http" /\ r.status = 404
         THEN ReturnBool(TRUE)
         ELSE IF r.kind # "http" \/ r.status >= 500
              THEN Throw("ConnectionError",
                         <<"Connection error during health check: ", "error.message">>,
                         NoBody, NoStatus)
              ELSE ReturnBool(FALSE)

healthCheckStrict404(r) ==
    IF Resolves(r)
    THEN IF r.status = 200
         THEN IF r.body.val = "object" /\ r.body.status # "undefined"
              THEN ReturnBool(JsBoolean(r.body.status))
              ELSE ReturnBool(IF r.body.val # "null" THEN JsBoolean(r.body.val) ELSE FALSE)
         ELSE ReturnBool(FALSE)
    ELSE IF r.kind # "http"
         THEN Throw("ConnectionError",
                    <<"Connection error during health check: ", "error.message">>,
                    NoBody, NoStatus)
         ELSE ReturnBool(FALSE)

healthCheck(r) ==
    IF Resolves(r)
    THEN IF r.status = 200
         THEN IF r.body.val = "object" /\ r.body.status # "undefined"
              THEN ReturnBool(JsBoolean(r.body.status))
              ELSE ReturnBool(IF r.body.val # "null" THEN JsBoolean(r.body.val) ELSE FALSE)
         ELSE ReturnBool(FALSE)
    ELSE IF r.kind = "http" /\ r.status = 404
         THEN ReturnBool(TRUE)
         ELSE IF r.kind # "http"
              THEN Throw("ConnectionError",
                         <<"Connection error during health check: ", "error.message">>,
                         NoBody, NoStatus)
              ELSE ReturnBool(FALSE)

\* ------------------------------------------------------------ transport
\* config.__retryCount lives on the request config, which axios hands back in
\* error.config and merges unchanged into the re-issued request: one counter
\* per logical request, starting absent (0).
IsRetryableExcept504(r) ==
    r.kind # "http" \/ (r.status >= 500 /\ r.status < 600 /\ r.status # 504)

IsRetryableAnyError(r) == r.kind # "http" \/ r.status >= 400

\* Response interceptor: only network errors and 5xx responses are retried.
IsRetryable(r) == r.kind # "http" \/ (r.status >= 500 /\ r.status < 600)

RetriesLeftInclusive(count, max) == count <= max

RetriesLeftOffByOne(count, max) == count + 1 < max

\* config.__retryCount < maxRetries
RetriesLeft(count, max) == count < max

\* Math.pow(2, config.__retryCount) * 100
BackoffDelayFromZero(count) == (2 ^ (count - 1)) * BackoffBase

BackoffDelay(count) == (2 ^ count) * BackoffBase

\* ---------------------------------------------------- waitForCompletion
DeadlineSeconds(start, t) == start + (t \div 1000)

DeadlineDefaulted(start, t) == start + (IF t <= 0 THEN PollStep ELSE t)

\* endTime = startTime + timeout
Deadline(start, t) == start + t

\* while (Date.now() < endTime)
LoopContinuesInclusive(t, deadline) == t <= deadline

LoopContinues(t, deadline) == t < deadline

IsTerminalCompletedOnly(st) == isCompleted(st)

\* status.isCompleted || status.isFailed
IsTerminalOrProcessing(st) == isCompleted(st) \/ isFailed(st) \/ isProcessing(st)

IsTerminalNeedsPdf(st) == (isCompleted(st) /\ hasPdf(st)) \/ isFailed(st)

IsTerminal(st) == isCompleted(st) \/ isFailed(st)

WaitStepSwallow(status) ==
    IF status.kind = "throw" THEN "sleep"
    ELSE IF IsTerminal(status.data) THEN "return"
    ELSE "sleep"

WaitStepReturnsUnknown(status) ==
    IF status.kind = "throw" THEN "throw"
    ELSE IF IsTerminal(status.data) \/ ~isProcessing(status.data) THEN "return"
    ELSE "sleep"

\* What the loop body does with a settled checkStatus call: its error
\* propagates, a terminal status is returned, anything else sleeps.
WaitStep(status) ==
    IF status.kind = "throw" THEN "throw"
    ELSE IF IsTerminal(status.data) THEN "return"
    ELSE "sleep"

\* (elapsed / 1000).toFixed(1), in tenths of a second
ToFixed1(ms) == (ms + 50) \div 100

TimeoutFailure(elapsed) ==
    Throw("TimeoutError",
          <<"Timeout waiting for analysis to complete (", ToString(ToFixed1(elapsed)), "s elapsed)">>,
          NoBody, NoStatus)

\* ---------------------------------------------------------------- state
\* The terminal analysis statuses, named independently of isCompleted and isFailed.
TerminalNames == {"COMPLETED", "MANUAL_COMPLETED", "FAILED"}

\* A status check came back with a terminal / a non-terminal status.
SawTerminal(o) == o.kind = "return" /\ o.data.analysis_status \in TerminalNames

SawNonTerminal(o) == o.kind = "return" /\ o.data.analysis_status \notin TerminalNames

\* A status check came back terminal or raised.
Ended(o) == SawTerminal(o) \/ o.kind = "throw"

VARIABLES
    maxRetries,     \* constructor argument captured by the response interceptor
    op,             \* the client operation in progress
    pc,             \* where it is suspended: idle, loop, request, backoff, sleep, done
    now,            \* Date.now()
    timeout,        \* waitForCompletion arguments
    pollInterval,
    startTime,      \* waitForCompletion locals
    endTime,
    retryCount,     \* config.__retryCount of the request in flight
    attempts,       \* HTTP attempts made for the request in flight
    failed,         \* attempts of it that failed
    backoffs,       \* backoff delays waited for it
    lastResp,       \* what the last attempt got from the network
    delivered,      \* what the transport call settled with for its caller
    checks,         \* checkStatus calls made by waitForCompletion
    sleeps,         \* poll-interval suspensions of waitForCompletion
    observed,       \* what the latest of those checkStatus calls settled with
    pastEnd,        \* history: an earlier one came back terminal or raised
    result,         \* what the operation handed to its caller
    headers,        \* the headers of the latest attempt sent
    disk,           \* the destination of downloadReport: before the call and now
    input,          \* the argument a getter or URL resolution is applied to
    output,         \* what it gave
    procs,          \* the operations in flight together on one client, one record each
    retryCounts,    \* config.__retryCount of the request config each of them made last
    latest,         \* history: the operation called last (0: none)
    still,          \* history: those suspended at that call that have not moved since
    served,         \* the analysis_status sequence two waitForCompletion runs are answered with
    twins,          \* those two runs, one record each
    helper          \* a call of an example helper that waits for the PDF

vars == <<maxRetries, op, pc, now, timeout, pollInterval, startTime, endTime, retryCount,
          attempts, failed, backoffs, lastResp, delivered, checks, sleeps, observed, pastEnd,
          result, headers, disk, input, output, procs, retryCounts, latest, still,
          served, twins, helper>>

\* The variables of the getters and of the URL resolution.
pureVars == <<input, output>>

\* The variables of the operations in flight together.
concVars == <<procs, retryCounts, latest, still>>

\* The operations in flight together: two calls on the same client.
Procs == {1, 2}

FreshProc ==
    [op |-> "none", pc |-> "idle", attempts |-> 0, failed |-> 0, backoffs |-> 0,
     last |-> NotYet, checks |-> 0, elapsed |-> 0, result |-> Pending]

\* The variables of the runs set side by side and of the example helpers.
sideVars == <<served, twins, helper>>

Twins == {1, 2}

NoServed == [statuses |-> <<>>, timeout |-> 0]

FreshTwin == [pc |-> "idle", elapsed |-> 0, checks |-> 0, sleeps |-> 0, result |-> Pending]

FreshHelper ==
    [fn |-> "none", pc |-> "idle", now |-> 0, endTime |-> 0, pollInterval |-> 0,
     maxRetries |-> 0, retryCount |-> 0, checks |-> 0, failedAt |-> 0, result |-> Pending]

\* No run is set beside another, no helper was called.
SideFresh ==
    /\ served = NoServed
    /\ twins = [i \in Twins |-> FreshTwin]
    /\ helper = FreshHelper

\* No operation is in flight.
ConcFresh ==
    /\ procs = [p \in Procs |-> FreshProc]
    /\ retryCounts = [p \in Procs |-> 0]
    /\ latest = 0
    /\ still = {}

\* The variables of one call on the client.
clientVars == <<maxRetries, op, pc, now, timeout, pollInterval, startTime, endTime, retryCount,
                attempts, failed, backoffs, lastResp, delivered, checks, sleeps, observed,
                pastEnd, result, headers, disk>>

NoInput == [kind |-> "none"]

NoOutput == [kind |-> "none"]

\* No operation has been called on the client yet.
ClientFresh ==
    /\ op = "none"
    /\ pc = "idle"
    /\ now = 0
    /\ timeout = 0
    /\ pollInterval = 0
    /\ startTime = 0
    /\ endTime = 0
    /\ retryCount = 0
    /\ attempts = 0
    /\ failed = 0
    /\ backoffs = 0
    /\ lastResp = NotYet
    /\ delivered = NotYet
    /\ checks = 0
    /\ sleeps = 0
    /\ observed = Pending
    /\ pastEnd = FALSE
    /\ result = Pending
    /\ headers = NoHeaders
    /\ disk = [before |-> Destination(TRUE, "absent"), now |-> Destination(TRUE, "absent")]

Init ==
    /\ maxRetries \in 0..MaxRetriesBound
    /\ ClientFresh
    /\ input = NoInput
    /\ output = NoOutput
    /\ ConcFresh
    /\ SideFresh

\* this.axiosInstance.get/post(url, ...): a fresh request config, first attempt.
IssueRequest(o) ==
    /\ pc' = "request"
    /\ headers' = Outgoing(CallHeaders(o))
    /\ retryCount' = 0
    /\ attempts' = 1
    /\ failed' = 0
    /\ backoffs' = 0
    /\ lastResp' = NotYet
    /\ delivered' = NotYet

\* healthCheck, sendAnalysis, checkStatus, downloadReport up to their await.
CallOperation(o) ==
    /\ pc = "idle"
    /\ op' = o
    /\ IssueRequest(o)
    /\ IF o = "downloadReport"
       THEN \E d \in Destinations : disk' = [before |-> d, now |-> d]
       ELSE UNCHANGED disk
    /\ UNCHANGED <<pureVars, concVars, sideVars, maxRetries, now, timeout, pollInterval, startTime, endTime,
                   checks, sleeps, observed, pastEnd, result>>

\* waitForCompletion(requestId, t, p) up to the loop test.
CallWaitForCompletion(t, p) ==
    /\ pc = "idle"
    /\ op' = "waitForCompletion"
    /\ timeout' = t
    /\ pollInterval' = p
    /\ startTime' = now
    /\ endTime' = Deadline(now, t)
    /\ pc' = "loop"
    /\ UNCHANGED <<pureVars, concVars, sideVars, disk, headers, maxRetries, now, retryCount, attempts, failed, backoffs, lastResp,
                   delivered, checks, sleeps, observed, pastEnd, result>>

\* The loop test: start the next checkStatus, or leave the loop and throw.
WaitLoop ==
    /\ pc = "loop"
    /\ IF LoopContinues(now, endTime)
       THEN /\ checks' = checks + 1
            /\ IssueRequest("checkStatus")
            /\ UNCHANGED result
       ELSE /\ result' = TimeoutFailure(now - startTime)
            /\ pc' = "done"
            /\ UNCHANGED <<retryCount, attempts, failed, backoffs, lastResp, delivered, checks,
                           headers>>
    /\ UNCHANGED <<pureVars, concVars, sideVars, disk, maxRetries, op, now, timeout, pollInterval, startTime, endTime,
                   sleeps, observed, pastEnd>>

\* The operation's continuation once its transport call settled with r.
Settle(r) ==
    /\ delivered' = r
    /\ IF op = "waitForCompletion"
       THEN LET status == checkStatus(r)
            IN  /\ observed' = status
                /\ pastEnd' = (pastEnd \/ Ended(observed))
                /\ IF WaitStep(status) = "sleep"
                   THEN result' = result /\ pc' = "sleep"
                   ELSE result' = status /\ pc' = "done"
                /\ UNCHANGED disk
       ELSE /\ IF op = "downloadReport"
               THEN \E w \in SaveFileOutcomes(disk.now) :
                        /\ result' = downloadReport(r, w)
                        /\ disk' = [disk EXCEPT !.now = DestinationAfter(r, @, w)]
               ELSE /\ result' = CASE op = "healthCheck" -> healthCheck(r)
                                   [] op = "sendAnalysis" -> sendAnalysis(r)
                                   [] op = "checkStatus" -> checkStatus(r)
                    /\ UNCHANGED disk
            /\ pc' = "done"
            /\ UNCHANGED <<observed, pastEnd>>

\* An attempt gets a 2xx response: response => response.
AttemptResolves(r, d) ==
    /\ pc = "request"
    /\ Resolves(r)
    /\ now' = now + d
    /\ lastResp' = Received(op, r)
    /\ Settle(Received(op, r))
    /\ UNCHANGED <<pureVars, concVars, sideVars, headers, maxRetries, op, timeout, pollInterval, startTime, endTime, retryCount,
                   attempts, failed, backoffs, checks, sleeps>>

\* An attempt fails and the interceptor schedules a retry.
AttemptRetried(r, d) ==
    /\ pc = "request"
    /\ ~Resolves(r)
    /\ IsRetryable(r)
    /\ RetriesLeft(retryCount, maxRetries)
    /\ now' = now + d
    /\ lastResp' = Received(op, r)
    /\ failed' = failed + 1
    /\ retryCount' = retryCount + 1
    /\ pc' = "backoff"
    /\ UNCHANGED <<pureVars, concVars, sideVars, disk, headers, maxRetries, op, timeout, pollInterval, startTime, endTime, attempts,
                   backoffs, delivered, checks, sleeps, observed, pastEnd, result>>

\* An attempt fails and the interceptor rejects with its error.
AttemptRejected(r, d) ==
    /\ pc = "request"
    /\ ~Resolves(r)
    /\ ~(IsRetryable(r) /\ RetriesLeft(retryCount, maxRetries))
    /\ now' = now + d
    /\ lastResp' = Received(op, r)
    /\ failed' = failed + 1
    /\ Settle(Received(op, r))
    /\ UNCHANGED <<pureVars, concVars, sideVars, headers, maxRetries, op, timeout, pollInterval, startTime, endTime, retryCount,
                   attempts, backoffs, checks, sleeps>>

\* The backoff timer fires and the interceptor re-issues the request.
BackoffElapsed ==
    /\ pc = "backoff"
    /\ now' = now + BackoffDelay(retryCount)
    /\ backoffs' = backoffs + 1
    /\ attempts' = attempts + 1
    /\ headers' = Outgoing(headers)
    /\ pc' = "request"
    /\ UNCHANGED <<pureVars, concVars, sideVars, disk, maxRetries, op, timeout, pollInterval, startTime, endTime, retryCount,
                   failed, lastResp, delivered, checks, sleeps, observed, pastEnd, result>>

\* The poll timer fires and waitForCompletion goes back to the loop test.
PollElapsed ==
    /\ pc = "sleep"
    /\ now' = now + pollInterval
    /\ sleeps' = sleeps + 1
    /\ pc' = "loop"
    /\ UNCHANGED <<pureVars, concVars, sideVars, disk, headers, maxRetries, op, timeout, pollInterval, startTime, endTime, retryCount,
                   attempts, failed, backoffs, lastResp, delivered, checks, observed, pastEnd, result>>

Next ==
    \/ \E o \in Operations \ {"waitForCompletion"} : CallOperation(o)
    \/ \E t \in Timeouts, p \in PollIntervals : CallWaitForCompletion(t, p)
    \/ WaitLoop
    \/ \E r \in ResponsesFor(op), d \in Latencies : AttemptResolves(r, d)
    \/ \E r \in ResponsesFor(op), d \in Latencies : AttemptRetried(r, d)
    \/ \E r \in ResponsesFor(op), d \in Latencies : AttemptRejected(r, d)
    \/ BackoffElapsed
    \/ PollElapsed

Spec == Init /\ [][Next]_vars

\* An attempt in flight ends one way or another: axios settles every request,
\* at the latest when its own timeout (this.timeout) expires.
AttemptEnds ==
    \E r \in ResponsesFor(op), d \in Latencies :
        AttemptResolves(r, d) \/ AttemptRetried(r, d) \/ AttemptRejected(r, d)

\* The event loop runs every continuation that is ready and fires every timer
\* that is due.
Fairness ==
    /\ WF_vars(WaitLoop)
    /\ WF_vars(AttemptEnds)
    /\ WF_vars(BackoffElapsed)
    /\ WF_vars(PollElapsed)

\* The client of the runs whose ending is followed: a smaller retry budget.
FairInit ==
    /\ maxRetries \in 0..FairMaxRetries
    /\ ClientFresh
    /\ input = NoInput
    /\ output = NoOutput
    /\ ConcFresh
    /\ SideFresh

FairSpec == FairInit /\ [][Next]_vars /\ Fairness

\* ------------------------------------------- getters and URL resolution
\* The pure functions of the client, each applied once to an argument drawn
\* from the values it can be given.
PureInputs ==
    {[kind |-> "status", status |-> st] : st \in AnalysisStatuses}
    \cup {[kind |-> "url", reportUrl |-> u, baseUrl |-> b] : u \in ReportUrls, b \in BaseUrls}

PureInit ==
    /\ maxRetries = 0
    /\ ClientFresh
    /\ input \in PureInputs
    /\ output = NoOutput
    /\ ConcFresh
    /\ SideFresh

\* Reading the getters of an AnalysisStatus.
ReadGetters ==
    /\ input.kind = "status"
    /\ output = NoOutput
    /\ output' = [kind |-> "getters",
                  isCompleted |-> isCompleted(input.status),
                  isFailed |-> isFailed(input.status),
                  isProcessing |-> isProcessing(input.status),
                  hasPdf |-> hasPdf(input.status)]
    /\ UNCHANGED <<clientVars, concVars, sideVars, input>>

\* The first statement of downloadReport.
ResolveReportUrl ==
    /\ input.kind = "url"
    /\ output = NoOutput
    /\ output' = [kind |-> "url", url |-> FetchTarget(input.reportUrl, input.baseUrl)]
    /\ UNCHANGED <<clientVars, concVars, sideVars, input>>

PureNext == ReadGetters \/ ResolveReportUrl

PureSpec == PureInit /\ [][PureNext]_vars

\* ------------------------------------------ operations in flight together
\* Several calls on one client, interleaved at their awaits.  Each action is
\* the code one operation runs between two awaits; the interceptor, the loop
\* and the operations are those of the single call above.  elapsed is
\* Date.now() - startTime as the operation reads it.
ConcOperations == {"checkStatus", "waitForCompletion"}

ConcResponses ==
    {Http(200, Body("object", "'success'", "undefined", StatusData(a))) :
        a \in {"COMPLETED", "PROCESSING"}}
    \cup {Http(c, MessageOnly("'bad'")) : c \in {404, 503}}
    \cup {NoResponse("none")}

\* The arguments of the waitForCompletion calls: room for two status checks.
ConcPollInterval == PollStep

ConcTimeout == 2 * PollStep

SlotShared(p) == 1

\* The request config that carries the retry counter of p's request:
\* axiosInstance.get builds a new one for every call.
Slot(p) == p

BlockingPointsBusyWait == {"sleep", "backoff"}

\* The suspension points at which an operation keeps the thread to itself:
\* none, both delays are awaited timers.
BlockingPoints == {}

\* The event loop can run p's continuation.
CanRun(p) == \A q \in Procs \ {p} : procs[q].pc \notin BlockingPoints

\* p waits for its poll timer or for a backoff timer.
Suspended(p) == procs[p].pc \in {"sleep", "backoff"}

ConcIssueRequest(rec) ==
    [rec EXCEPT !.pc = "request", !.attempts = 1, !.failed = 0, !.backoffs = 0, !.last = NotYet]

ConcSettle(rec, r) ==
    LET status == checkStatus(r)
    IN  IF rec.op = "waitForCompletion" /\ WaitStep(status) = "sleep"
        THEN [rec EXCEPT !.pc = "sleep"]
        ELSE [rec EXCEPT !.pc = "done", !.result = status]

\* A step of p that is not its call.
Moved(p) == latest' = latest /\ still' = still \ {p}

ConcCall(p, o) ==
    /\ CanRun(p)
    /\ procs[p].pc = "idle"
    /\ IF o = "waitForCompletion"
       THEN /\ procs' = [procs EXCEPT ![p] = [@ EXCEPT !.op = o, !.pc = "loop"]]
            /\ UNCHANGED retryCounts
       ELSE /\ procs' = [procs EXCEPT ![p] = ConcIssueRequest([@ EXCEPT !.op = o])]
            /\ retryCounts' = [retryCounts EXCEPT ![Slot(p)] = 0]
    /\ latest' = p
    /\ still' = {q \in Procs \ {p} : Suspended(q)}
    /\ UNCHANGED <<clientVars, pureVars, sideVars>>

ConcWaitLoop(p) ==
    /\ CanRun(p)
    /\ procs[p].pc = "loop"
    /\ IF LoopContinues(procs[p].elapsed, Deadline(0, ConcTimeout))
       THEN /\ procs' = [procs EXCEPT ![p] = ConcIssueRequest([@ EXCEPT !.checks = @ + 1])]
            /\ retryCounts' = [retryCounts EXCEPT ![Slot(p)] = 0]
       ELSE /\ procs' = [procs EXCEPT ![p] =
                            [@ EXCEPT !.pc = "done", !.result = TimeoutFailure(procs[p].elapsed)]]
            /\ UNCHANGED retryCounts
    /\ Moved(p)
    /\ UNCHANGED <<clientVars, pureVars, sideVars>>

ConcAttemptResolves(p, r) ==
    /\ CanRun(p)
    /\ procs[p].pc = "request"
    /\ Resolves(r)
    /\ procs' = [procs EXCEPT ![p] = ConcSettle([@ EXCEPT !.last = r], r)]
    /\ Moved(p)
    /\ UNCHANGED <<clientVars, pureVars, sideVars, retryCounts>>

ConcAttemptRetried(p, r) ==
    /\ CanRun(p)
    /\ procs[p].pc = "request"
    /\ ~Resolves(r)
    /\ IsRetryable(r)
    /\ RetriesLeft(retryCounts[Slot(p)], maxRetries)
    /\ procs' = [procs EXCEPT ![p] = [@ EXCEPT !.last = r, !.failed = @ + 1, !.pc = "backoff"]]
    /\ retryCounts' = [retryCounts EXCEPT ![Slot(p)] = @ + 1]
    /\ Moved(p)
    /\ UNCHANGED <<clientVars, pureVars, sideVars>>

ConcAttemptRejected(p, r) ==
    /\ CanRun(p)
    /\ procs[p].pc = "request"
    /\ ~Resolves(r)
    /\ ~(IsRetryable(r) /\ RetriesLeft(retryCounts[Slot(p)], maxRetries))
    /\ procs' = [procs EXCEPT ![p] = ConcSettle([@ EXCEPT !.last = r, !.failed = @ + 1], r)]
    /\ Moved(p)
    /\ UNCHANGED <<clientVars, pureVars, sideVars, retryCounts>>

ConcBackoffElapsed(p) ==
    /\ CanRun(p)
    /\ procs[p].pc = "backoff"
    /\ procs' = [procs EXCEPT ![p] =
                    [@ EXCEPT !.pc = "request", !.attempts = @ + 1, !.backoffs = @ + 1,
                              !.elapsed = IF procs[p].op = "waitForCompletion"
                                          THEN @ + BackoffDelay(retryCounts[Slot(p)])
                                          ELSE @]]
    /\ Moved(p)
    /\ UNCHANGED <<clientVars, pureVars, sideVars, retryCounts>>

ConcPollElapsed(p) ==
    /\ CanRun(p)
    /\ procs[p].pc = "sleep"
    /\ procs' = [procs EXCEPT ![p] = [@ EXCEPT !.pc = "loop", !.elapsed = @ + ConcPollInterval]]
    /\ Moved(p)
    /\ UNCHANGED <<clientVars, pureVars, sideVars, retryCounts>>

\* Whatever p can do next.
ProcStep(p) ==
    \/ \E o \in ConcOperations : ConcCall(p, o)
    \/ ConcWaitLoop(p)
    \/ \E r \in ConcResponses : ConcAttemptResolves(p, r)
    \/ \E r \in ConcResponses : ConcAttemptRetried(p, r)
    \/ \E r \in ConcResponses : ConcAttemptRejected(p, r)
    \/ ConcBackoffElapsed(p)
    \/ ConcPollElapsed(p)

ConcInit ==
    /\ maxRetries \in 0..ConcMaxRetries
    /\ ClientFresh
    /\ input = NoInput
    /\ output = NoOutput
    /\ ConcFresh
    /\ SideFresh

ConcNext ==
    \/ \E p \in Procs, o \in ConcOperations : ConcCall(p, o)
    \/ \E p \in Procs : ConcWaitLoop(p)
    \/ \E p \in Procs, r \in ConcResponses : ConcAttemptResolves(p, r)
    \/ \E p \in Procs, r \in ConcResponses : ConcAttemptRetried(p, r)
    \/ \E p \in Procs, r \in ConcResponses : ConcAttemptRejected(p, r)
    \/ \E p \in Procs : ConcBackoffElapsed(p)
    \/ \E p \in Procs : ConcPollElapsed(p)

ConcSpec == ConcInit /\ [][ConcNext]_vars

\* ------------------------------- two waitForCompletion runs side by side
\* Two runs of the polling loop with the same arguments, answered by status
\* payloads that carry the same analysis_status sequence and whatever
\* report_status, pdf_status and report_pdf_link each.  elapsed is
\* Date.now() - startTime as the run reads it.
TwinPollInterval == PollStep

TwinTimeouts == {i * PollStep : i \in 0..MaxTwinChecks}

ReportStatusValues == {"undefined", "COMPLETED"}

TwinPdfStatusValues == {"undefined", "PROCESSING", "COMPLETED"}

TwinPdfLinkValues == {"undefined", "'/reports/abc.pdf'"}

\* The status payloads with analysis_status a.
StatusPayloads(a) ==
    [present : {TRUE},
     analysis_status : {a},
     report_status : ReportStatusValues,
     pdf_status : TwinPdfStatusValues,
     report_pdf_link : TwinPdfLinkValues]

TwinInit ==
    /\ maxRetries = 0
    /\ ClientFresh
    /\ input = NoInput
    /\ output = NoOutput
    /\ ConcFresh
    /\ helper = FreshHelper
    /\ served \in [statuses : [1..MaxTwinChecks -> AnalysisStatusValues], timeout : TwinTimeouts]
    /\ twins = [i \in Twins |-> [FreshTwin EXCEPT !.pc = "loop"]]

\* The loop test of run i.
TwinWaitLoop(i) ==
    /\ twins[i].pc = "loop"
    /\ twins' = [twins EXCEPT ![i] =
                    IF LoopContinues(twins[i].elapsed, Deadline(0, served.timeout))
                    THEN [@ EXCEPT !.pc = "request", !.checks = @ + 1]
                    ELSE [@ EXCEPT !.pc = "done", !.result = TimeoutFailure(twins[i].elapsed)]]
    /\ UNCHANGED <<clientVars, pureVars, concVars, served, helper>>

\* The status check of run i comes back with the payload st.
TwinSettle(i, st) ==
    /\ twins[i].pc = "request"
    /\ st \in StatusPayloads(served.statuses[twins[i].checks])
    /\ LET status == ReturnData("AnalysisStatus", st)
       IN  twins' = [twins EXCEPT ![i] =
                        IF WaitStep(status) = "sleep"
                        THEN [@ EXCEPT !.pc = "sleep"]
                        ELSE [@ EXCEPT !.pc = "done", !.result = status]]
    /\ UNCHANGED <<clientVars, pureVars, concVars, served, helper>>

\* The poll timer of run i fires.
TwinPollElapsed(i) ==
    /\ twins[i].pc = "sleep"
    /\ twins' = [twins EXCEPT ![i] =
                    [@ EXCEPT !.pc = "loop", !.sleeps = @ + 1,
                              !.elapsed = @ + TwinPollInterval]]
    /\ UNCHANGED <<clientVars, pureVars, concVars, served, helper>>

TwinNext ==
    \/ \E i \in Twins : TwinWaitLoop(i)
    \/ \E i \in Twins, a \in AnalysisStatusValues : \E st \in StatusPayloads(a) : TwinSettle(i, st)
    \/ \E i \in Twins : TwinPollElapsed(i)

TwinSpec == TwinInit /\ [][TwinNext]_vars

\* ------------------------------------ examples: waiting for the PDF
\* waitForPdf (pdf-wait-test.js) and waitForPdfWithRetry (async-example.js):
\* the polling loop of the examples, around client.checkStatus.  Logging has
\* no effect on the run.
HelperFunctions == {"waitForPdf", "waitForPdfWithRetry"}

HelperTimeouts == {i * PollStep : i \in 0..MaxHelperSteps}

HelperPollInterval == PollStep

\* The statuses a check of a completed analysis may return.
HelperPayloads == {st \in AnalysisStatuses : st.analysis_status = "COMPLETED"}

\* An error client.checkStatus may throw.
CheckErrors ==
    {handleErrorResponse(NoResponse("none")), handleErrorResponse(Http(404, NoBody))}

\* status.pdf_status === PDFStatusEnum.COMPLETED && status.report_pdf_link
PdfReady(st) == st.pdf_status = "COMPLETED" /\ JsBoolean(st.report_pdf_link)

\* status.pdf_status === PDFStatusEnum.FAILED
PdfFailed(st) == st.pdf_status = "FAILED"

\* new Error(`PDF generation failed: ${status.report_error || 'Unknown error'}`)
PdfGenerationFailed ==
    Throw("Error", <<"PDF generation failed: ", "Unknown error">>, NoBody, NoStatus)

HelperTimeoutFailure(elapsed) ==
    Throw("Error",
          <<"Timeout waiting for PDF generation to complete (", ToString(ToFixed1(elapsed)),
            "s elapsed)">>,
          NoBody, NoStatus)

\* Math.min(pollInterval * Math.pow(2, retryCount), 30000)
RetryBackoff(p, count) ==
    IF p * (2 ^ count) < 30000 THEN p * (2 ^ count) ELSE 30000

\* The catch block of waitForPdfWithRetry, entered with error.
Caught(h, error) ==
    IF h.retryCount + 1 <= h.maxRetries
    THEN [h EXCEPT !.retryCount = @ + 1, !.pc = "backoff"]
    ELSE [h EXCEPT !.retryCount = @ + 1, !.pc = "done", !.result = error]

\* error is thrown in the loop body: waitForPdfWithRetry has its try around
\* the whole body, waitForPdf has none.
ThrownInBody(h, error) ==
    IF h.fn = "waitForPdfWithRetry"
    THEN Caught(h, error)
    ELSE [h EXCEPT !.pc = "done", !.result = error]

HelperInit ==
    /\ maxRetries = 0
    /\ ClientFresh
    /\ input = NoInput
    /\ output = NoOutput
    /\ ConcFresh
    /\ SideFresh

\* waitForPdf(client, requestId, t, p) / waitForPdfWithRetry(client, requestId, t, p, m)
\* up to the loop test.
HelperCall(f, t, p, m) ==
    /\ helper.pc = "idle"
    /\ f = "waitForPdf" => m = 0
    /\ helper' = [FreshHelper EXCEPT !.fn = f, !.pc = "loop", !.endTime = Deadline(0, t),
                                      !.pollInterval = p, !.maxRetries = m]
    /\ UNCHANGED <<clientVars, pureVars, concVars, served, twins>>

\* The loop test: the next status check, or the timeout error after the loop.
HelperLoop ==
    /\ helper.pc = "loop"
    /\ helper' = IF LoopContinues(helper.now, helper.endTime)
                 THEN [helper EXCEPT !.pc = "request", !.checks = @ + 1]
                 ELSE [helper EXCEPT !.pc = "done", !.result = HelperTimeoutFailure(helper.now)]
    /\ UNCHANGED <<clientVars, pureVars, concVars, served, twins>>

\* client.checkStatus returns st.
HelperCheckReturns(st) ==
    /\ helper.pc = "request"
    /\ helper' =
          IF PdfReady(st)
          THEN [helper EXCEPT !.pc = "done", !.result = ReturnData("AnalysisStatus", st)]
          ELSE IF PdfFailed(st)
          THEN ThrownInBody([helper EXCEPT !.failedAt = IF @ = 0 THEN helper.checks ELSE @],
                            PdfGenerationFailed)
          ELSE [helper EXCEPT !.pc = "sleep"]
    /\ UNCHANGED <<clientVars, pureVars, concVars, served, twins>>

\* client.checkStatus throws error.
HelperCheckThrows(error) ==
    /\ helper.pc = "request"
    /\ helper' = ThrownInBody(helper, error)
    /\ UNCHANGED <<clientVars, pureVars, concVars, served, twins>>

\* The poll timer fires.
HelperPollElapsed ==
    /\ helper.pc = "sleep"
    /\ helper' = [helper EXCEPT !.pc = "loop", !.now = @ + helper.pollInterval]
    /\ UNCHANGED <<clientVars, pureVars, concVars, served, twins>>

\* The backoff timer of the catch block fires.
HelperBackoffElapsed ==
    /\ helper.pc = "backoff"
    /\ helper' = [helper EXCEPT !.pc = "loop",
                                 !.now = @ + RetryBackoff(helper.pollInterval, helper.retryCount)]
    /\ UNCHANGED <<clientVars, pureVars, concVars, served, twins>>

HelperNext ==
    \/ \E f \in HelperFunctions, t \in HelperTimeouts, m \in 0..HelperMaxRetries :
            HelperCall(f, t, HelperPollInterval, m)
    \/ HelperLoop
    \/ \E st \in HelperPayloads : HelperCheckReturns(st)
    \/ \E error \in CheckErrors : HelperCheckThrows(error)
    \/ HelperPollElapsed
    \/ HelperBackoffElapsed

HelperSpec == HelperInit /\ [][HelperNext]_vars

\* =============================================================== claims
\* C1: in waitForCompletion a status check that comes back terminal
\* (COMPLETED, MANUAL_COMPLETED, FAILED) is the last one, none before it was
\* terminal: the call is over, it returned exactly that status, and with k
\* checks before it there were k+1 checks and k poll-interval suspensions.
C1_ReturnsFirstTerminal ==
    op = "waitForCompletion" =>
        /\ ~pastEnd
        /\ SawTerminal(observed) =>
              /\ pc = "done"
              /\ result = observed
              /\ sleeps = checks - 1

C1_Witness ==
    /\ op = "waitForCompletion"
    /\ pc = "done"
    /\ ~pastEnd
    /\ checks = 3
    /\ sleeps = 2
    /\ result.kind = "return"
    /\ result.data.analysis_status = "COMPLETED"

\* C2: a waitForCompletion call all of whose status checks succeeded with a
\* non-terminal status never returns a status; when it is over it has thrown
\* its TimeoutError, and then at least timeout ms have passed since it started.
C2_TimeoutWhenNeverTerminal ==
    (op = "waitForCompletion" /\ ~pastEnd /\ (checks = 0 \/ SawNonTerminal(observed))) =>
        /\ result.kind # "return"
        /\ pc = "done" =>
              /\ result.kind = "throw"
              /\ result.name = "TimeoutError"
              /\ now - startTime >= timeout

C2_Witness ==
    /\ op = "waitForCompletion"
    /\ pc = "done"
    /\ timeout = 2 * PollStep
    /\ pollInterval = PollStep
    /\ checks = 2
    /\ sleeps = 2
    /\ SawNonTerminal(observed)
    /\ result.name = "TimeoutError"

\* C3: in waitForCompletion a status check that raises is the last one: the
\* call is over with that very error, no check and no suspension follows it.
C3_CheckErrorPropagates ==
    op = "waitForCompletion" =>
        /\ ~pastEnd
        /\ observed.kind = "throw" =>
              /\ pc = "done"
              /\ result = observed
              /\ sleeps = checks - 1

C3_Witness ==
    /\ op = "waitForCompletion"
    /\ pc = "done"
    /\ checks = 2
    /\ sleeps = 1
    /\ observed.kind = "throw"
    /\ observed.name = "ResourceNotFoundError"
    /\ result.name = "ResourceNotFoundError"
    /\ now - startTime < timeout

\* The failures the retry policy is stated for: no response, or a 5xx status.
NoResponseOr5xx(r) ==
    r.kind \in {"none", "setup"} \/ (r.kind = "http" /\ r.status \in 500..599)

FailedOutside5xx(r) ==
    r.kind = "http" /\ r.status \notin 200..299 /\ r.status \notin 500..599

\* C4: the transport waits for a retry only after a failure without response
\* or with a 5xx status; an attempt that fails with any other status is the
\* last one, its error is what the caller gets, no backoff follows it, and when
\* it was the first attempt it is the only one.
C4_RetryOnlyTransient ==
    /\ pc = "backoff" => NoResponseOr5xx(lastResp)
    /\ FailedOutside5xx(lastResp) =>
          /\ pc = "done"
          /\ delivered = lastResp
          /\ backoffs = attempts - 1
          /\ failed = 1 => (attempts = 1 /\ backoffs = 0)

C4_Witness ==
    /\ op = "sendAnalysis"
    /\ maxRetries = 3
    /\ pc = "done"
    /\ lastResp.kind = "http"
    /\ lastResp.status = 402
    /\ attempts = 1
    /\ backoffs = 0
    /\ result.kind = "throw"

\* C5: one request gets at most maxRetries + 1 attempts and maxRetries
\* backoffs; a request that ends with a failure without response or with a 5xx
\* status has had exactly maxRetries + 1 attempts, all failed, and the caller
\* gets the error of the last one.
C5_RetryCeiling ==
    /\ attempts <= maxRetries + 1
    /\ backoffs <= maxRetries
    /\ (delivered.kind # "pending" /\ NoResponseOr5xx(delivered)) =>
          /\ attempts = maxRetries + 1
          /\ failed = attempts
          /\ delivered = lastResp

C5_Witness ==
    /\ op = "checkStatus"
    /\ maxRetries = 3
    /\ pc = "done"
    /\ attempts = 4
    /\ failed = 4
    /\ delivered.kind = "http"
    /\ delivered.status = 503
    /\ result.kind = "throw"

\* C6: after k <= maxRetries failures without response or with a 5xx status
\* the request is attempted again, and a request that ends with a success
\* after k failures has had exactly k + 1 attempts and hands the caller the
\* response of the last one.
C6_SuccessAfterRetries ==
    /\ (lastResp.kind # "pending" /\ NoResponseOr5xx(lastResp) /\ failed <= maxRetries) =>
          /\ pc \in {"backoff", "request"}
          /\ delivered.kind = "pending"
    /\ pc = "request" => attempts = failed + 1
    /\ (delivered.kind = "http" /\ delivered.status \in 200..299) =>
          /\ delivered = lastResp
          /\ attempts = failed + 1
          /\ failed <= maxRetries

C6_Witness ==
    /\ op = "checkStatus"
    /\ maxRetries = 3
    /\ pc = "done"
    /\ failed = 2
    /\ attempts = 3
    /\ delivered.kind = "http"
    /\ delivered.status = 200
    /\ result.kind = "return"
    /\ result.data.analysis_status = "COMPLETED"

RequestOperations == {"sendAnalysis", "checkStatus", "downloadReport"}

\* The call of one of the three request operations is over and its transport
\* call was rejected with r.
RejectedWith(r) ==
    /\ op \in RequestOperations
    /\ pc = "done"
    /\ delivered = r

\* C7: when the transport call of sendAnalysis, checkStatus or downloadReport
\* fails with status 401, 402, 404, 400, 408 or 504 the error raised is
\* AuthenticationError, InsufficientTokensError, ResourceNotFoundError,
\* ValidationError, TimeoutError and TimeoutError respectively, its statusCode
\* is that status and its message contains the message the server sent.
C7_StatusToErrorKind ==
    \A s \in {400, 401, 402, 404, 408, 504} :
        (RejectedWith(delivered) /\ delivered.kind = "http" /\ delivered.status = s) =>
            /\ result.kind = "throw"
            /\ result.name = CASE s = 401 -> "AuthenticationError"
                               [] s = 402 -> "InsufficientTokensError"
                               [] s = 404 -> "ResourceNotFoundError"
                               [] s = 400 -> "ValidationError"
                               [] s = 408 -> "TimeoutError"
                               [] s = 504 -> "TimeoutError"
            /\ result.statusCode = s
            /\ delivered.sent # "undefined" =>
                  \E i \in DOMAIN result.message : result.message[i] = delivered.sent

\* C8: when the transport call of sendAnalysis, checkStatus or downloadReport
\* finally fails with a status in 500..599 other than 504, the error raised is
\* a ServerError carrying that status.
C8_ServerErrorKind ==
    (RejectedWith(delivered) /\ delivered.kind = "http"
        /\ delivered.status \in (500..599) \ {504}) =>
        /\ result.kind = "throw"
        /\ result.name = "ServerError"
        /\ result.statusCode = delivered.status

\* C9: when the transport call of sendAnalysis, checkStatus or downloadReport
\* fails without any response, the error raised is a ConnectionError without
\* status code.
C9_ConnectionErrorKind ==
    (RejectedWith(delivered) /\ delivered.kind = "none") =>
        /\ result.kind = "throw"
        /\ result.name = "ConnectionError"
        /\ result.statusCode = NoStatus

\* Boolean(v) is true for these values of the model and false for the others.
Truthy == {"true", "'ok'", "'success'", "'error'", "object"}

\* C10: healthCheck returns, for a 200 response whose body is an object with
\* a status key, that key coerced to boolean; for a 200 response with another
\* body, the body coerced to boolean; true for a 404 response; false for every
\* other response status.
C10_HealthCheckResult ==
    (op = "healthCheck" /\ pc = "done" /\ delivered.kind = "http") =>
        /\ result.kind = "return"
        /\ result.flag =
              IF delivered.status = 200
              THEN IF delivered.body.val = "object" /\ delivered.body.status # "undefined"
                   THEN delivered.body.status \in Truthy
                   ELSE delivered.body.val \in Truthy
              ELSE delivered.status = 404

C10_Witness ==
    /\ op = "healthCheck"
    /\ pc = "done"
    /\ delivered.kind = "http"
    /\ delivered.status = 404
    /\ result.kind = "return"
    /\ result.flag = TRUE

\* C11: healthCheck throws exactly when its request ended without any
\* response, and what it throws is then a ConnectionError; whenever a response
\* of any status was received it returns a boolean.
C11_HealthCheckThrowsOnlyWithoutResponse ==
    (op = "healthCheck" /\ pc = "done") =>
        /\ (result.kind = "throw") <=> (delivered.kind # "http")
        /\ result.kind = "throw" => result.name = "ConnectionError"
        /\ delivered.kind = "http" => (result.kind = "return" /\ result.name = "boolean")

C11_Witness ==
    /\ op = "healthCheck"
    /\ pc = "done"
    /\ delivered.kind = "none"
    /\ maxRetries >= 1
    /\ attempts = maxRetries + 1
    /\ result.kind = "throw"
    /\ result.name = "ConnectionError"

\* The two operations that decode the {status, message, data} envelope.
EnvelopeOperations == {"sendAnalysis", "checkStatus"}

\* The domain class each of them builds from body.data.
DomainClass(o) == IF o = "sendAnalysis" THEN "AnalysisRequest" ELSE "AnalysisStatus"

\* The call of an envelope operation is over and its request got HTTP 200.
Answered200 ==
    /\ op \in EnvelopeOperations
    /\ pc = "done"
    /\ delivered.kind = "http"
    /\ delivered.status = 200

\* The generic error made from a 200 body that does not report success.
ApplicationError(body) ==
    /\ result.kind = "throw"
    /\ result.name = "BridgeIQError"
    /\ result.message = <<IF body.message \in {"undefined", "''"}
                          THEN "Unknown error" ELSE body.message>>
    /\ result.response = body
    /\ result.statusCode = NoStatus

\* C12 as stated: in sendAnalysis and checkStatus every HTTP 200 response
\* whose body status is "success" yields the domain object built from
\* body.data, and every other HTTP 200 response raises the generic
\* BridgeIQError with the body's message ("Unknown error" when absent) and
\* the full body as response, not re-classified by handleErrorResponse.
C12_EnvelopeAsStated ==
    Answered200 =>
        IF delivered.body.status = "'success'"
        THEN /\ result.kind = "return"
             /\ result.name = DomainClass(op)
             /\ result.data = delivered.body.data
        ELSE ApplicationError(delivered.body)

\* C12 amended: the same, for a body status "success" that comes with a data
\* object and for a non-null body with any other status; a null body, and a
\* "success" without data, raise the generic BridgeIQError "Error during
\* ...", which carries neither response nor status code.
C12_Envelope ==
    Answered200 =>
        IF delivered.body.val = "null"
           \/ (delivered.body.status = "'success'" /\ ~delivered.body.data.present)
        THEN /\ result.kind = "throw"
             /\ result.name = "BridgeIQError"
             /\ result.message[1] = "Error during "
             /\ result.response = NoBody
             /\ result.statusCode = NoStatus
        ELSE IF delivered.body.status = "'success'"
        THEN /\ result.kind = "return"
             /\ result.name = DomainClass(op)
             /\ result.data = delivered.body.data
        ELSE ApplicationError(delivered.body)

C12_Witness ==
    /\ Answered200
    /\ op = "sendAnalysis"
    /\ delivered.body.status = "'error'"
    /\ delivered.body.message = "'bad'"
    /\ result.kind = "throw"
    /\ result.message = <<"'bad'">>
    /\ result.response = delivered.body

\* C13: every error thrown by sendAnalysis, checkStatus or downloadReport
\* after an HTTP response was received for the call carries that response's
\* status as its statusCode, application-level failures on HTTP 200 and
\* unexpected 2xx statuses included.
C13_ErrorsCarryStatus ==
    (op \in RequestOperations /\ pc = "done" /\ result.kind = "throw"
        /\ delivered.kind = "http") =>
        result.statusCode = delivered.status

\* C14: hasPdf of an AnalysisStatus is true exactly when report_pdf_link is
\* present (neither undefined nor null) and pdf_status is COMPLETED, whatever
\* analysis_status is: false with a link and another pdf_status, false with
\* pdf_status COMPLETED and no link.
C14_HasPdf ==
    output.kind = "getters" =>
        LET st == input.status
            linkPresent == st.report_pdf_link \notin {"undefined", "null"}
        IN  /\ output.hasPdf <=> (linkPresent /\ st.pdf_status = "COMPLETED")
            /\ (linkPresent /\ st.pdf_status # "COMPLETED") => ~output.hasPdf
            /\ (~linkPresent /\ st.pdf_status = "COMPLETED") => ~output.hasPdf
            /\ \A a \in AnalysisStatusValues :
                  hasPdf([st EXCEPT !.analysis_status = a]) = output.hasPdf

C14_Witness ==
    /\ output.kind = "getters"
    /\ output.hasPdf
    /\ input.status.analysis_status = "PROCESSING"
    /\ input.status.pdf_status = "COMPLETED"

\* C15: for every analysis_status value isCompleted is true exactly for
\* COMPLETED and MANUAL_COMPLETED, isFailed exactly for FAILED and isProcessing
\* exactly for PENDING and PROCESSING; so at most one of the three is true,
\* and exactly one is for each of the five enumerated values.
C15_StatusGetters ==
    output.kind = "getters" =>
        LET a == input.status.analysis_status
            holding == {g \in {"isCompleted", "isFailed", "isProcessing"} : output[g]}
        IN  /\ output.isCompleted <=> a \in {"COMPLETED", "MANUAL_COMPLETED"}
            /\ output.isFailed <=> a = "FAILED"
            /\ output.isProcessing <=> a \in {"PENDING", "PROCESSING"}
            /\ Cardinality(holding) <= 1
            /\ a \in AnalysisStatusEnum => Cardinality(holding) = 1

C15_Witness ==
    /\ output.kind = "getters"
    /\ input.status.analysis_status = "MANUAL_COMPLETED"
    /\ output.isCompleted
    /\ ~output.isFailed
    /\ ~output.isProcessing

\* C16: downloadReport fetches an absolute report URL unmodified, and an
\* origin-relative one (starting with "/") from the base URL's origin and
\* full path followed by the segments of the report URL.
C16_FetchTargetKeepsBasePath ==
    output.kind = "url" =>
        LET u == input.reportUrl
            b == input.baseUrl
        IN  /\ u.origin # "" => output.url = u
            /\ (u.origin = "" /\ u.lead) =>
                  /\ output.url.origin = b.origin
                  /\ output.url.path = b.path \o u.path

\* The request of p that settled last went the way a request made alone
\* goes: every failed attempt but a rejected one was followed by one backoff
\* and one new attempt, and it was rejected with a no-response or 5xx
\* failure only on attempt maxRetries + 1.
RequestRanAsAlone(rec) ==
    /\ rec.attempts = rec.backoffs + 1
    /\ rec.failed = IF Resolves(rec.last) THEN rec.attempts - 1 ELSE rec.attempts
    /\ (~Resolves(rec.last) /\ NoResponseOr5xx(rec.last)) => rec.attempts = maxRetries + 1

\* C17: operations in flight together on one client do not interfere.  Under
\* every interleaving the retry counter of an operation's request counts that
\* request's own failed attempts only, no request makes more than
\* maxRetries + 1 attempts, and a finished operation made the attempts and
\* has the outcome it has alone with the responses it got: checkStatus the
\* outcome of its last response, waitForCompletion that or, past its own
\* deadline, TimeoutError.
C17_NoInterference ==
    \A p \in Procs :
        LET rec == procs[p]
        IN  /\ rec.pc \in {"request", "backoff"} => retryCounts[Slot(p)] = rec.failed
            /\ rec.attempts <= maxRetries + 1
            /\ (rec.pc = "done" /\ rec.last # NotYet) => RequestRanAsAlone(rec)
            /\ (rec.pc = "done" /\ rec.op = "checkStatus") => rec.result = checkStatus(rec.last)
            /\ (rec.pc = "done" /\ rec.op = "waitForCompletion") =>
                  \/ /\ rec.result = checkStatus(rec.last)
                     /\ WaitStep(rec.result) # "sleep"
                  \/ /\ rec.result = TimeoutFailure(rec.elapsed)
                     /\ rec.elapsed >= ConcTimeout

C17_Witness ==
    /\ maxRetries = 1
    /\ procs[1].pc = "done"
    /\ procs[1].op = "checkStatus"
    /\ procs[1].last.status = 503
    /\ procs[1].attempts = 2
    /\ procs[2].pc = "backoff"
    /\ procs[2].op = "waitForCompletion"
    /\ procs[2].checks = 2
    /\ retryCounts[Slot(2)] = 1
    /\ latest = 1

\* C18: while an operation is suspended in the poll interval or in a retry
\* backoff, every other operation that is not over can take its next step,
\* whatever that step is: be called, test the loop, get a response, resume
\* from its own timer.
C18_SuspensionsDoNotBlock ==
    \A p \in Procs, q \in Procs :
        (p # q /\ Suspended(p) /\ procs[q].pc # "done") => ENABLED ProcStep(q)

C18_Witness ==
    /\ procs[1].pc = "sleep"
    /\ 1 \in still
    /\ latest = 2
    /\ procs[2].pc = "done"
    /\ procs[2].op = "checkStatus"
    /\ procs[2].backoffs = 1

\* The operations that hand a failed request's error on to their caller.
ThrowingOperations == RequestOperations \cup {"waitForCompletion"}

\* The latest attempt failed with status c and the interceptor has dealt with
\* it: a retry is scheduled, or the request was rejected and the call is over.
LastAttemptGot(c) ==
    /\ lastResp.kind = "http"
    /\ lastResp.status = c
    /\ pc \in {"backoff", "done"}

\* The operation is over and its caller got the TimeoutError made from the
\* response the transport call was rejected with.
SurfacedAsTimeout ==
    /\ pc = "done"
    /\ result.kind = "throw"
    /\ result.name = "TimeoutError"
    /\ result.statusCode = delivered.status

\* C19 as stated: an attempt that fails with status 408 or 504 is not retried
\* (no backoff follows it; when it is the request's first failure the request
\* made exactly one attempt) and the failure reaches the caller as TimeoutError.
C19_TimeoutStatusesNotRetried ==
    \A c \in {408, 504} :
        LastAttemptGot(c) =>
            /\ pc # "backoff"
            /\ failed = 1 => attempts = 1
            /\ op \in ThrowingOperations => SurfacedAsTimeout

\* C19 amended: an attempt that fails with 408 is not retried, as above; an
\* attempt that fails with 504 is retried like any 5xx, so a request is
\* rejected with 504 on attempt maxRetries + 1 only; either way the rejected
\* request reaches the caller as TimeoutError.
C19_TimeoutStatuses ==
    /\ LastAttemptGot(408) =>
            /\ pc # "backoff"
            /\ failed = 1 => attempts = 1
            /\ op \in ThrowingOperations => SurfacedAsTimeout
    /\ LastAttemptGot(504) =>
            /\ pc = "backoff" => RetriesLeft(retryCount - 1, maxRetries)
            /\ pc = "done" => attempts = maxRetries + 1
            /\ (pc = "done" /\ op \in ThrowingOperations) => SurfacedAsTimeout

C19_Witness ==
    /\ op = "checkStatus"
    /\ LastAttemptGot(504)
    /\ maxRetries >= 2
    /\ attempts = maxRetries + 1
    /\ backoffs = maxRetries
    /\ SurfacedAsTimeout

\* waitForCompletion was called with a poll interval at least as long as its timeout.
PollNotShorterThanTimeout == op = "waitForCompletion" /\ pollInterval >= timeout

\* The call returned the terminal status of its only check.
ReturnedOnlyCheck ==
    /\ result.kind = "return"
    /\ result = observed
    /\ result.data.analysis_status \in TerminalNames
    /\ checks = 1
    /\ sleeps = 0

\* The call left the loop and threw its own TimeoutError.
ThrewLoopTimeout ==
    /\ result.kind = "throw"
    /\ result.name = "TimeoutError"
    /\ result.statusCode = NoStatus
    /\ result.message[1] = "Timeout waiting for analysis to complete ("

\* C20 as stated: with pollInterval >= timeout waitForCompletion issues at
\* most one status check, and when it is over it either returned the terminal
\* status of that check or threw TimeoutError after exactly one suspension.
C20_SingleCheckAsStated ==
    PollNotShorterThanTimeout =>
        /\ checks <= 1
        /\ pc = "done" => (ReturnedOnlyCheck \/ (ThrewLoopTimeout /\ sleeps = 1))

\* C20 amended: with pollInterval >= timeout at most one status check is
\* issued, and the call ends in one of four ways: it returns the terminal
\* status of that check; it throws the error that check threw; it throws
\* TimeoutError after that check and one suspension; or, with timeout 0, it
\* throws TimeoutError at once, without check or suspension.
C20_SingleCheck ==
    PollNotShorterThanTimeout =>
        /\ checks <= 1
        /\ pc = "done" =>
              \/ ReturnedOnlyCheck
              \/ /\ observed.kind = "throw"
                 /\ result = observed
                 /\ checks = 1
                 /\ sleeps = 0
              \/ /\ ThrewLoopTimeout
                 /\ timeout > 0
                 /\ checks = 1
                 /\ sleeps = 1
              \/ /\ ThrewLoopTimeout
                 /\ timeout <= 0
                 /\ checks = 0
                 /\ sleeps = 0

C20_Witness ==
    /\ PollNotShorterThanTimeout
    /\ timeout > 0
    /\ pollInterval = timeout
    /\ pc = "done"
    /\ ThrewLoopTimeout
    /\ checks = 1
    /\ sleeps = 1
    /\ now = endTime

\* The three ways a waitForCompletion call ends: it returns the terminal
\* status its last check saw, it throws its own TimeoutError, or it throws
\* the error its last check threw.
EndedAsWaitCan ==
    \/ /\ result.kind = "return"
       /\ result = observed
       /\ result.data.analysis_status \in TerminalNames
    \/ /\ ThrewLoopTimeout
       /\ observed.kind # "throw"
    \/ /\ result.kind = "throw"
       /\ observed.kind = "throw"
       /\ result = observed

\* C21: every waitForCompletion call, whatever its timeout and poll
\* interval, ends, given that every attempt in flight ends and every timer
\* due fires; and it ends in one of the three ways above only.
C21_WaitEnds ==
    /\ [](op = "waitForCompletion" /\ pc = "done" => EndedAsWaitCan)
    /\ (op = "waitForCompletion") ~> (pc = "done")

C21_Witness ==
    /\ op = "waitForCompletion"
    /\ pc = "done"
    /\ timeout = MaxTimeoutSteps * PollStep
    /\ pollInterval = PollStep
    /\ checks = MaxTimeoutSteps
    /\ sleeps = MaxTimeoutSteps
    /\ backoffs >= 1
    /\ ThrewLoopTimeout

\* C22: every attempt the client sends, for whichever operation and whether
\* first attempt or retry, carries the client-id, client-secret and User-Agent
\* headers with the values the constructor stored.
C22_CredentialsOnEveryAttempt ==
    attempts >= 1 =>
        /\ headers["client-id"] = ClientId
        /\ headers["client-secret"] = ClientSecret
        /\ headers["User-Agent"] = UserAgent

C22_Witness ==
    /\ op = "downloadReport"
    /\ pc = "request"
    /\ attempts = 3
    /\ headers["client-secret"] = ClientSecret
    /\ headers["User-Agent"] = UserAgent

\* The fetch of downloadReport came back with HTTP 200.
Fetched200 == delivered.kind = "http" /\ delivered.status = 200

\* C23: downloadReport touches the destination only once its fetch returned
\* HTTP 200: when it returns, it returns the path, the fetch returned 200 and
\* the report is at the destination; when the fetch ended any other way (a
\* failure status, no response, retries used up, another 2xx status) it
\* throws, and directory and file are as they were before the call.
C23_WritesOnlyAfter200 ==
    op = "downloadReport" =>
        /\ disk.now # disk.before => (pc = "done" /\ Fetched200)
        /\ (pc = "done" /\ result.kind = "return") =>
              /\ result = ReturnPath
              /\ Fetched200
              /\ disk.now = Destination(TRUE, "report")
        /\ (pc = "done" /\ Fetched200 /\ disk.now = Destination(TRUE, "report")) =>
              result = ReturnPath
        /\ (pc = "done" /\ ~Fetched200) =>
              /\ result.kind = "throw"
              /\ disk.now = disk.before

C23_Witness ==
    /\ op = "downloadReport"
    /\ pc = "done"
    /\ Fetched200
    /\ backoffs >= 1
    /\ disk.before = Destination(FALSE, "absent")
    /\ disk.now = Destination(TRUE, "report")
    /\ result = ReturnPath

\* C24: the delay waited before the n-th retry of a request, n = 1..maxRetries,
\* is 2^n * 100 ms (200, 400, 800, ...), which is more than the delay before
\* the retry that preceded it.
C24_BackoffDoubles ==
    [][(pc = "backoff" /\ pc' = "request") =>
          /\ backoffs' \in 1..maxRetries
          /\ attempts' = backoffs' + 1
          /\ now' - now = (2 ^ backoffs') * 100
          /\ backoffs' > 1 => now' - now > (2 ^ (backoffs' - 1)) * 100]_vars

C24_Witness ==
    /\ op = "healthCheck"
    /\ pc = "request"
    /\ maxRetries = 3
    /\ backoffs = 3
    /\ attempts = 4
    /\ now = 200 + 400 + 800

\* The call is over and its transport call was rejected with a status that has
\* no branch of its own in the error mapping: not 400, 401, 402, 404, 408 and
\* not a 5xx.
RejectedWithOtherStatus ==
    /\ op \in ThrowingOperations
    /\ pc = "done"
    /\ delivered.kind = "http"
    /\ ~Resolves(delivered)
    /\ delivered.status \notin {400, 401, 402, 404, 408}
    /\ ~(delivered.status >= 500 /\ delivered.status <= 599)

NeitherCompletedNorFailed(o) ==
    o.kind = "return" /\ ~isCompleted(o.data) /\ ~isFailed(o.data)

\* C26: waitForCompletion returns a status only if isCompleted or isFailed is
\* true of it. A check that comes back with any other analysis_status, one
\* outside the enumeration included, returns nothing: the call suspends, the
\* suspension lasts one poll interval and leads back to the loop test, and
\* the loop test before the deadline issues the next check.
C26_OnlyTerminalReturned ==
    /\ []((op = "waitForCompletion" /\ result.kind = "return") =>
            (isCompleted(result.data) \/ isFailed(result.data)))
    /\ [][op = "waitForCompletion" =>
            /\ (pc = "request" /\ pc' \notin {"request", "backoff"}
                    /\ NeitherCompletedNorFailed(observed')) =>
                  /\ pc' = "sleep"
                  /\ result'.kind # "return"
            /\ pc = "sleep" =>
                  /\ pc' = "loop"
                  /\ now' = now + pollInterval
                  /\ sleeps' = sleeps + 1
                  /\ result'.kind # "return"
            /\ (pc = "loop" /\ now < endTime) =>
                  /\ pc' = "request"
                  /\ checks' = checks + 1]_vars

C26_Witness ==
    /\ op = "waitForCompletion"
    /\ pc = "request"
    /\ checks = 2
    /\ sleeps = 1
    /\ observed.kind = "return"
    /\ observed.data.analysis_status = "QUEUED"
    /\ result.kind # "return"

\* The longest the status check in flight (or the last one made) can have
\* taken so far: the latency of each of its attempts and the backoff delays
\* 200, 400, ... between them.
CheckDurationBound ==
    attempts * MaxLatencySteps * LatencyStep + ((2 ^ (backoffs + 1)) - 2) * 100

\* C27: waitForCompletion tests the deadline before it starts a status check
\* and nowhere else. A check starts only before the deadline; a check that
\* comes back terminal ends the call with that status, also when the deadline
\* has passed meanwhile, and no TimeoutError is raised then. So the call may
\* end after start + timeout, by no more than one poll interval plus the
\* duration of one status check with its retries.
C27_DeadlineTestedBeforeCheck ==
    /\ []((op = "waitForCompletion" /\ SawTerminal(observed) /\ ~pastEnd) =>
            (pc = "done" /\ result = observed))
    /\ []((op = "waitForCompletion" /\ pc = "done") =>
            now - (startTime + timeout) <= pollInterval + CheckDurationBound)
    /\ [][op = "waitForCompletion" =>
            /\ (pc = "loop" /\ pc' = "request") => now < endTime
            /\ (pc = "loop" /\ pc' = "done") => (now >= endTime /\ result'.name = "TimeoutError")
            /\ (pc \in {"request", "backoff", "sleep"}) => ~(result'.kind = "throw" /\ ThrewLoopTimeout')
         ]_vars

C27_Witness ==
    /\ op = "waitForCompletion"
    /\ pc = "done"
    /\ checks = 2
    /\ backoffs >= 1
    /\ now > startTime + timeout
    /\ result.kind = "return"
    /\ result.data.analysis_status = "FAILED"

\* C28: a waitForCompletion call with timeout <= 0 makes no status check, so
\* what the server would answer plays no part: no request is sent, nothing is
\* waited for, and the call throws its TimeoutError at the time it started.
C28_NoCheckWithoutTimeout ==
    (op = "waitForCompletion" /\ timeout <= 0) =>
        /\ pc \in {"loop", "done"}
        /\ checks = 0
        /\ sleeps = 0
        /\ attempts = 0
        /\ delivered = NotYet
        /\ observed.kind # "return"
        /\ now = startTime
        /\ ENABLED <<WaitLoop>>_vars => ~LoopContinues(now, endTime)
        /\ pc = "done" =>
              /\ ThrewLoopTimeout
              /\ result = TimeoutFailure(0)

C28_Witness ==
    /\ op = "waitForCompletion"
    /\ timeout < 0
    /\ pc = "done"
    /\ checks = 0
    /\ ThrewLoopTimeout

\* Both runs are over.
TwinsDone == \A i \in Twins : twins[i].pc = "done"

\* C29: whether waitForCompletion returns or keeps polling depends on
\* analysis_status alone. Two runs answered with the same analysis_status
\* sequence, whatever the report_status, pdf_status and report_pdf_link of
\* each answer, make the same number of checks and suspensions and end the
\* same way: both return a status with the same terminal analysis_status, or
\* both throw TimeoutError; a run returns as soon as analysis_status is
\* terminal, whether or not the status has a PDF.
C29_DecisionOnAnalysisStatusOnly ==
    /\ TwinsDone =>
          /\ twins[1].checks = twins[2].checks
          /\ twins[1].sleeps = twins[2].sleeps
          /\ twins[1].elapsed = twins[2].elapsed
          /\ twins[1].result.kind = twins[2].result.kind
          /\ twins[1].result.name = twins[2].result.name
          /\ twins[1].result.data.analysis_status = twins[2].result.data.analysis_status
    /\ \A i \in Twins :
          /\ twins[i].pc = "sleep" =>
                served.statuses[twins[i].checks] \notin TerminalNames
          /\ (twins[i].pc = "done" /\ twins[i].result.kind = "return") =>
                /\ twins[i].result.data.analysis_status = served.statuses[twins[i].checks]
                /\ twins[i].result.data.analysis_status \in TerminalNames

C29_Witness ==
    /\ TwinsDone
    /\ twins[1].checks = 2
    /\ twins[1].result.kind = "return"
    /\ twins[2].result.kind = "return"
    /\ isCompleted(twins[1].result.data)
    /\ hasPdf(twins[1].result.data)
    /\ isCompleted(twins[2].result.data)
    /\ ~hasPdf(twins[2].result.data)
    /\ twins[2].result.data.report_status # twins[1].result.data.report_status

\* A status check of the helper reported pdf_status FAILED.
SawPdfFailed == helper.failedAt > 0

\* waitForPdf ends at the check that reports pdf_status FAILED, with the
\* 'PDF generation failed' error.
WaitForPdfThrowsAtOnce ==
    (helper.fn = "waitForPdf" /\ SawPdfFailed) =>
        /\ helper.pc = "done"
        /\ helper.result = PdfGenerationFailed
        /\ helper.checks = helper.failedAt

\* C30: when a status check of waitForPdfWithRetry reports pdf_status FAILED
\* the helper is over: it has thrown the 'PDF generation failed' error and
\* made no status check after that one, as waitForPdf does.
C30_FailedPdfThrownAtOnce ==
    (helper.fn = "waitForPdfWithRetry" /\ SawPdfFailed) =>
        /\ helper.pc = "done"
        /\ helper.result = PdfGenerationFailed
        /\ helper.checks = helper.failedAt

\* What the helper does instead: up to maxRetries further checks are made
\* after the one that reported FAILED, and the call may still return a status.
C30_ChecksAgainAfterFailed ==
    /\ helper.fn = "waitForPdfWithRetry"
    /\ SawPdfFailed
    /\ helper.pc = "done"
    /\ helper.checks > helper.failedAt
    /\ helper.result.kind = "return"

====
